---- MODULE Spec2Model ----
(***************************************************************************)
(* Model of drone-plugin-k8s-client: one run of the plugin (main.go, run)  *)
(* and the goroutines it starts (plugin.go: JobEvents, PodEvents,          *)
(* WatchLogs), sharing watcherStatusMap and the WaitGroup Plugin.Wg.       *)
(***************************************************************************)
EXTENDS Integers, Sequences, FiniteSets, TLC

(* ------------------------------ bounds --------------------------------- *)

\* events the job subscription delivers in one run
MaxJobEvents == 3
\* events all pod subscriptions deliver in one run
MaxPodEvents == 2
\* largest failed / succeeded pod count a job status reports
MaxCount == 1
\* calls of CreateOrGetPVC made one after another on one cluster
MaxPvcCalls == 3
\* distinct values the variables of the plugin's environment take
MaxEnvValues == 2

(* ----------------------------- constants ------------------------------- *)

JobWatcherStatusKey == "job"
PodWatcherStatusKey == "pod"
LogWatcherStatusKey == "log"

\* strings are sequences of characters
pluginEnvPrefix == <<"P", "L", "U", "G", "I", "N", "_">>
droneEnvPrefix == <<"D", "R", "O", "N", "E", "_">>

StatusKeys == {JobWatcherStatusKey, PodWatcherStatusKey, LogWatcherStatusKey}

\* names a pod event can report (payload.GetName())
PodNames == {"pod-a"}

(* ------------------------------- errors -------------------------------- *)

\* a nil error
NilErr == [msg |-> "nil", n |-> 0]

\* an error of the cluster API client, passed on unchanged
ApiErr(what) == [msg |-> what, n |-> 0]

\* a mutant of FailedPodsErr: the message does not carry the count
FailedPodsErr_NoCount(failed) == [msg |-> "there are [ %d ] failed pods", n |-> 0]

\* errors.New(fmt.Sprintf("there are [ %d ] failed pods", payload.Status.Failed))
FailedPodsErr(failed) == [msg |-> "there are [ %d ] failed pods", n |-> failed]

(* ------------------------------- events -------------------------------- *)

\* watch.Event of the job subscription: its Type, the dynamic type of its
\* Object and, for a Job object, Status.Failed and Status.Succeeded
JobEvent(type, payload, failed, succeeded) ==
  [type |-> type, payload |-> payload, failed |-> failed, succeeded |-> succeeded]

JobEventSet ==
  {JobEvent("Added", "Job", 0, 0), JobEvent("Deleted", "Job", 0, 0),
   JobEvent("Error", "Job", 0, 0), JobEvent("Error", "Status", 0, 0),
   JobEvent("Bookmark", "Job", 0, 0)}
  \cup {JobEvent("Modified", "Job", f, s) : f \in 0..MaxCount, s \in 0..MaxCount}

\* watch.Event of a pod subscription
PodEvent(type, payload, name) == [type |-> type, payload |-> payload, name |-> name]

PodEventSet ==
  {PodEvent(t, "Pod", n) : t \in {"Added", "Modified", "Deleted", "Error", "Bookmark"},
                           n \in PodNames}
  \cup {PodEvent("Error", "Status", "")}

(* -------------------------------- state -------------------------------- *)

VARIABLES
  runPc,      \* where run() is: pvc, watchjob, createjob, jobevents, wait,
              \* cleanup, returned; crashed when the process died of a panic
  runErr,     \* the error run() returned (NilErr until then)
  claim,      \* TRUE when the PersistentVolumeClaim exists in the cluster
  job,        \* the Job in the cluster: absent, created, deleted
  jobSub,     \* the job watch.Interface: none, open, stopped, ended
  jobStops,   \* Stop() calls made on the job watch.Interface
  jobHist,    \* the events handleJobEvent was called with, in order
  status,     \* watcherStatusMap
  wg,         \* the counter of Plugin.Wg
  podSubs,    \* the pod watch.Interfaces opened, in order: open, stopped, ended
  podEvents,  \* the number of events handlePodEvent was called with
  logs,       \* the WatchLogs goroutines started, in order: [pod, w, pc, at],
              \* w: the pod watcher that started it, pc: open (before
              \* req.Stream), copy (in io.Copy), failed, done, at: the
              \* number of job events handled when req.Stream failed
  cleanups,   \* calls of Plugin.Cleanup
  pvcCalls,   \* the calls of Plugin.CreateOrGetPVC made one after another on
              \* one cluster: [exists, getOk, createOk, result]
  env,        \* Plugin.Env, a map from keys to values
  originalEnv \* Plugin.originalEnvVars at work: the keys of Plugin.Env its
              \* loop visited, the slice it built, whether it returned

vars == <<runPc, runErr, claim, job, jobSub, jobStops, jobHist,
          status, wg, podSubs, podEvents, logs, cleanups,
          pvcCalls, env, originalEnv>>

\* the state of the operations that are checked on their own; a run leaves
\* it alone (the content of the job it submits is not part of the run's state)
pureVars == <<pvcCalls, env, originalEnv>>

clusterVars == <<claim, job, cleanups>>
jobVars == <<jobSub, jobStops, jobHist>>
podVars == <<podSubs, podEvents>>

\* var watcherStatusMap = map[string]bool{"job": false, "pod": false, "log": false}
watcherStatusMap == [k \in StatusKeys |-> FALSE]

\* the state of a run when run() has built the Plugin
InitRun ==
  /\ runPc = "pvc"
  /\ runErr = NilErr
  /\ claim \in BOOLEAN
  /\ job = "absent"
  /\ jobSub = "none"
  /\ jobStops = 0
  /\ jobHist = <<>>
  /\ status = watcherStatusMap
  /\ wg = 0
  /\ podSubs = <<>>
  /\ podEvents = 0
  /\ logs = <<>>
  /\ cleanups = 0

\* no key in Plugin.Env
NoEnv == [k \in {} |-> 0]

\* originalEnv := make([]coreV1.EnvVar, 0), before the loop
NoOriginalEnv == [done |-> FALSE, visited |-> {}, vars |-> <<>>]

Init ==
  /\ InitRun
  /\ pvcCalls = <<>>
  /\ env = NoEnv
  /\ originalEnv = NoOriginalEnv

\* the process lives: run() has not returned and no goroutine has panicked
Alive == runPc \notin {"returned", "crashed"}

(* --------------------------- status registry --------------------------- *)

watchingStatusOn(m, watcherStatusKey) == [m EXCEPT ![watcherStatusKey] = TRUE]

watchingStatusOff(m, watcherStatusKey) == [m EXCEPT ![watcherStatusKey] = FALSE]

watchingStatus(m, watcherStatusKey) == m[watcherStatusKey]

(* ------------------------- run(), before the loop ---------------------- *)

\* a mutant of CreateOrGetPVC: the Create call is made whatever Get answered
CreateOrGetPVC_AlwaysCreate(exists, getOk, createOk) ==
  IF createOk /\ ~exists
  THEN [claim |-> TRUE, creates |-> 1, err |-> NilErr, ret |-> "created"]
  ELSE [claim |-> exists, creates |-> 1,
        err |-> ApiErr("could not create PVC"), ret |-> "nil"]

\* Plugin.CreateOrGetPVC on a cluster where the claim exists or not: Get
\* answers getOk (an existing claim can still fail to be read); on a Get
\* error one Create follows, which answers createOk and cannot succeed on an
\* existing claim. The result: the claim's existence afterwards, the Create
\* calls made, the error and the claim returned (the one Get found, the one
\* Create made, or nil).
CreateOrGetPVC(exists, getOk, createOk) ==
  IF getOk /\ exists
  THEN [claim |-> exists, creates |-> 0, err |-> NilErr, ret |-> "existing"]
  ELSE IF createOk /\ ~exists
       THEN [claim |-> TRUE, creates |-> 1, err |-> NilErr, ret |-> "created"]
       ELSE [claim |-> exists, creates |-> 1,
             err |-> ApiErr("could not create PVC"), ret |-> "nil"]

\* a mutant of RunCreateOrGetPVC: the error of CreateOrGetPVC is dropped
RunCreateOrGetPVC_ErrDropped ==
  /\ runPc = "pvc"
  /\ \E getOk \in BOOLEAN, createOk \in BOOLEAN :
       LET r == CreateOrGetPVC(claim, getOk, createOk)
       IN  /\ claim' = r.claim
           /\ runErr' = NilErr
           /\ runPc' = "watchjob"
  /\ UNCHANGED <<job, cleanups, jobVars, status, wg, podVars, logs>>
  /\ UNCHANGED pureVars

\* run(): _, err = plugin.CreateOrGetPVC(clientSet), an error is returned
RunCreateOrGetPVC ==
  /\ runPc = "pvc"
  /\ \E getOk \in BOOLEAN, createOk \in BOOLEAN :
       LET r == CreateOrGetPVC(claim, getOk, createOk)
       IN  /\ claim' = r.claim
           /\ runErr' = r.err
           /\ runPc' = IF r.err = NilErr THEN "watchjob" ELSE "returned"
  /\ UNCHANGED <<job, cleanups, jobVars, status, wg, podVars, logs>>
  /\ UNCHANGED pureVars

\* Plugin.WatchJob as run() calls it
RunWatchJob ==
  /\ runPc = "watchjob"
  /\ \E ok \in BOOLEAN :
       IF ok
       THEN /\ status' = watchingStatusOn(status, JobWatcherStatusKey)
            /\ jobSub' = "open"
            /\ runPc' = "createjob"
            /\ runErr' = runErr
       ELSE /\ status' = watchingStatusOff(status, JobWatcherStatusKey)
            /\ jobSub' = jobSub
            /\ runPc' = "returned"
            /\ runErr' = ApiErr("could not watch jobs")
  /\ UNCHANGED <<clusterVars, jobStops, jobHist, wg, podVars, logs>>
  /\ UNCHANGED pureVars

\* a mutant of RunCreateJob: the error is returned with the job watcher left
\* as it is
RunCreateJob_NoStop ==
  /\ runPc = "createjob"
  /\ \E ok \in BOOLEAN :
       IF ok
       THEN /\ job' = "created"
            /\ runPc' = "jobevents"
            /\ UNCHANGED <<runErr, jobSub, jobStops>>
       ELSE /\ job' = job
            /\ runPc' = "returned"
            /\ runErr' = ApiErr("could not create job")
            /\ UNCHANGED <<jobSub, jobStops>>
  /\ UNCHANGED <<claim, cleanups, jobHist, status, wg, podVars, logs>>
  /\ UNCHANGED pureVars

\* Plugin.CreateJob as run() calls it: on an error the job watcher is stopped
RunCreateJob ==
  /\ runPc = "createjob"
  /\ \E ok \in BOOLEAN :
       IF ok
       THEN /\ job' = "created"
            /\ runPc' = "jobevents"
            /\ UNCHANGED <<runErr, jobSub, jobStops>>
       ELSE /\ job' = job
            /\ jobSub' = "stopped"
            /\ jobStops' = jobStops + 1
            /\ runPc' = "returned"
            /\ runErr' = ApiErr("could not create job")
  /\ UNCHANGED <<claim, cleanups, jobHist, status, wg, podVars, logs>>
  /\ UNCHANGED pureVars

(* ----------------------------- job watcher ----------------------------- *)

\* payload := reflect.ValueOf(event.Object).Interface().(*v1.Job): the type
\* assertion panics on an Object that is no *v1.Job, and the process dies
jobPayloadPanic(ev) ==
  /\ ev.payload # "Job"
  /\ runPc' = "crashed"
  /\ UNCHANGED <<runErr, clusterVars, jobSub, jobStops, status, wg, podVars, logs>>

\* a mutant of jobModifiedFailed: the failure also stops the pod watchers and
\* clears the pod status
jobModifiedFailed_StopsPod(ev) ==
  /\ jobSub' = "stopped"
  /\ jobStops' = jobStops + 1
  /\ runPc' = "returned"
  /\ runErr' = FailedPodsErr(ev.failed)
  /\ podSubs' = [i \in DOMAIN podSubs |-> "stopped"]
  /\ status' = watchingStatusOff(status, PodWatcherStatusKey)
  /\ UNCHANGED <<clusterVars, wg, podEvents, logs>>

\* case watch.Modified, payload.Status.Failed > 0: watcher.Stop() and the
\* error, which JobEvents and run() return at once
jobModifiedFailed(ev) ==
  /\ jobSub' = "stopped"
  /\ jobStops' = jobStops + 1
  /\ runPc' = "returned"
  /\ runErr' = FailedPodsErr(ev.failed)
  /\ UNCHANGED <<clusterVars, status, wg, podVars, logs>>

\* case watch.Modified, payload.Status.Succeeded > 0: watcher.Stop(), nil
jobModifiedSucceeded(ev) ==
  /\ jobSub' = "stopped"
  /\ jobStops' = jobStops + 1
  /\ UNCHANGED <<runPc, runErr, clusterVars, status, wg, podVars, logs>>

\* Plugin.WatchPod, then p.Wg.Add(1) and go p.PodEvents(podWatcher, clientSet);
\* a WatchPod error is returned by handleJobEvent, JobEvents and run()
jobSpawnPodWatcher(ev) ==
  \E ok \in BOOLEAN :
    IF ok
    THEN /\ status' = watchingStatusOn(status, PodWatcherStatusKey)
         /\ podSubs' = Append(podSubs, "open")
         /\ wg' = wg + 1
         /\ UNCHANGED <<runPc, runErr>>
    ELSE /\ status' = watchingStatusOff(status, PodWatcherStatusKey)
         /\ runPc' = "returned"
         /\ runErr' = ApiErr("could not watch pod")
         /\ UNCHANGED <<podSubs, wg>>

\* case watch.Modified with neither count > 0: nothing when the pod is
\* already being watched, else the pod watcher is spawned
jobModifiedRunning(ev) ==
  /\ IF watchingStatus(status, PodWatcherStatusKey) = TRUE
     THEN UNCHANGED <<runPc, runErr, status, wg, podSubs>>
     ELSE jobSpawnPodWatcher(ev)
  /\ UNCHANGED <<clusterVars, jobSub, jobStops, podEvents, logs>>

\* case watch.Deleted: watcher.Stop()
jobDeleted(ev) ==
  /\ jobSub' = "stopped"
  /\ jobStops' = jobStops + 1
  /\ UNCHANGED <<runPc, runErr, clusterVars, status, wg, podVars, logs>>

\* case watch.Added, case watch.Error, default: a log line
jobLogOnly(ev) ==
  UNCHANGED <<runPc, runErr, clusterVars, jobSub, jobStops, status, wg, podVars, logs>>

\* a mutant of handleJobEvent: on a Modified event without failed pods the
\* pod being watched is looked at before the succeeded-pod count
handleJobEvent_WatchBeforeSucceeded(ev) ==
  IF ev.payload # "Job" THEN jobPayloadPanic(ev)
  ELSE IF ev.type = "Modified"
       THEN IF ev.failed > 0 THEN jobModifiedFailed(ev)
            ELSE IF watchingStatus(status, PodWatcherStatusKey) = FALSE
                 THEN jobModifiedRunning(ev)
            ELSE IF ev.succeeded > 0 THEN jobModifiedSucceeded(ev)
            ELSE jobModifiedRunning(ev)
  ELSE IF ev.type = "Deleted" THEN jobDeleted(ev)
  ELSE jobLogOnly(ev)

\* Plugin.handleJobEvent
handleJobEvent(ev) ==
  IF ev.payload # "Job" THEN jobPayloadPanic(ev)
  ELSE IF ev.type = "Modified"
       THEN IF ev.failed > 0 THEN jobModifiedFailed(ev)
            ELSE IF ev.succeeded > 0 THEN jobModifiedSucceeded(ev)
            ELSE jobModifiedRunning(ev)
  ELSE IF ev.type = "Deleted" THEN jobDeleted(ev)
  ELSE jobLogOnly(ev)

\* one round of the loop of Plugin.JobEvents: the next event of
\* watcher.ResultChan() is handled (a stopped or ended watcher delivers none)
JobEvents ==
  /\ runPc = "jobevents"
  /\ jobSub = "open"
  /\ Len(jobHist) < MaxJobEvents
  /\ \E ev \in JobEventSet :
       /\ jobHist' = Append(jobHist, ev)
       /\ handleJobEvent(ev)
  /\ UNCHANGED pureVars

\* the cluster ends the job event stream: the channel is closed unstopped
JobStreamEnds ==
  /\ Alive
  /\ jobSub = "open"
  /\ jobSub' = "ended"
  /\ UNCHANGED <<runPc, runErr, clusterVars, jobStops, jobHist, status, wg, podVars, logs>>
  /\ UNCHANGED pureVars

\* the loop of Plugin.JobEvents ends on the closed channel and returns nil;
\* run() goes on to plugin.Wg.Wait()
JobEventsReturn ==
  /\ runPc = "jobevents"
  /\ jobSub \in {"stopped", "ended"}
  /\ runPc' = "wait"
  /\ UNCHANGED <<runErr, clusterVars, jobVars, status, wg, podVars, logs>>
  /\ UNCHANGED pureVars

\* plugin.Wg.Wait() returns once the counter is zero
RunWait ==
  /\ runPc = "wait"
  /\ wg = 0
  /\ runPc' = "cleanup"
  /\ UNCHANGED <<runErr, clusterVars, jobVars, status, wg, podVars, logs>>
  /\ UNCHANGED pureVars

\* plugin.Cleanup(clientSet), that is DeleteJob with its error dropped, and
\* return nil
RunCleanup ==
  /\ runPc = "cleanup"
  /\ cleanups' = cleanups + 1
  /\ \E ok \in BOOLEAN : job' = IF ok THEN "deleted" ELSE job
  /\ runPc' = "returned"
  /\ runErr' = NilErr
  /\ UNCHANGED <<claim, jobVars, status, wg, podVars, logs>>
  /\ UNCHANGED pureVars

(* ----------------------------- pod watcher ----------------------------- *)

\* payload := reflect.ValueOf(event.Object).Interface().(*coreV1.Pod)
podPayloadPanic(i, ev) ==
  /\ runPc' = "crashed"
  /\ UNCHANGED <<status, podSubs, logs>>

\* case watch.Modified: go p.WatchLogs(payload.GetName(), clientSet) unless
\* the log status is on
podModified(i, ev) ==
  /\ IF watchingStatus(status, LogWatcherStatusKey) = TRUE
     THEN logs' = logs
     ELSE logs' = Append(logs, [pod |-> ev.name, w |-> i, pc |-> "open", at |-> 0])
  /\ UNCHANGED <<runPc, status, podSubs>>

\* a mutant of podDeleted: the status is cleared and the watcher not stopped
podDeleted_NoStop(i, ev) ==
  /\ status' = watchingStatusOff(status, PodWatcherStatusKey)
  /\ UNCHANGED <<runPc, podSubs, logs>>

\* case watch.Deleted: watcher.Stop(), watchingStatusOff(PodWatcherStatusKey)
podDeleted(i, ev) ==
  /\ podSubs' = [podSubs EXCEPT ![i] = "stopped"]
  /\ status' = watchingStatusOff(status, PodWatcherStatusKey)
  /\ UNCHANGED <<runPc, logs>>

\* case watch.Added, case watch.Error, default: a log line
podLogOnly(i, ev) ==
  UNCHANGED <<runPc, status, podSubs, logs>>

\* Plugin.handlePodEvent, on the watcher podSubs[i]
handlePodEvent(i, ev) ==
  IF ev.payload # "Pod" THEN podPayloadPanic(i, ev)
  ELSE IF ev.type = "Modified" THEN podModified(i, ev)
  ELSE IF ev.type = "Deleted" THEN podDeleted(i, ev)
  ELSE podLogOnly(i, ev)

\* one round of the loop of Plugin.PodEvents, a goroutine of its own
PodEvents ==
  /\ Alive
  /\ podEvents < MaxPodEvents
  /\ \E i \in DOMAIN podSubs, ev \in PodEventSet :
       /\ podSubs[i] = "open"
       /\ podEvents' = podEvents + 1
       /\ handlePodEvent(i, ev)
  /\ UNCHANGED <<runErr, clusterVars, jobVars, wg>>
  /\ UNCHANGED pureVars

\* the cluster ends a pod event stream: the loop of PodEvents ends
PodStreamEnds ==
  /\ Alive
  /\ \E i \in DOMAIN podSubs :
       /\ podSubs[i] = "open"
       /\ podSubs' = [podSubs EXCEPT ![i] = "ended"]
  /\ UNCHANGED <<runPc, runErr, clusterVars, jobVars, status, wg, podEvents, logs>>
  /\ UNCHANGED pureVars

(* ----------------------------- log streamer ---------------------------- *)

\* Plugin.WatchLogs up to io.Copy: req.Stream() fails (status off, return)
\* or succeeds (status on, the copy starts)
WatchLogsOpen ==
  /\ Alive
  /\ \E j \in DOMAIN logs, ok \in BOOLEAN :
       /\ logs[j].pc = "open"
       /\ IF ok
          THEN /\ status' = watchingStatusOn(status, LogWatcherStatusKey)
               /\ logs' = [logs EXCEPT ![j].pc = "copy"]
          ELSE /\ status' = watchingStatusOff(status, LogWatcherStatusKey)
               /\ logs' = [logs EXCEPT ![j].pc = "failed", ![j].at = Len(jobHist)]
  /\ UNCHANGED <<runPc, runErr, clusterVars, jobVars, wg, podVars>>
  /\ UNCHANGED pureVars

\* sync.WaitGroup.Done: the counter goes down by one, and a counter below
\* zero panics ("sync: negative WaitGroup counter")
WgDone(n) == n - 1

\* Plugin.WatchLogs from the return of io.Copy, whatever it returned: status
\* off, p.Wg.Done()
WatchLogsCopied ==
  /\ Alive
  /\ \E j \in DOMAIN logs :
       /\ logs[j].pc = "copy"
       /\ logs' = [logs EXCEPT ![j].pc = "done"]
  /\ status' = watchingStatusOff(status, LogWatcherStatusKey)
  /\ wg' = WgDone(wg)
  /\ runPc' = IF wg' < 0 THEN "crashed" ELSE runPc
  /\ UNCHANGED <<runErr, clusterVars, jobVars, podVars>>
  /\ UNCHANGED pureVars

(* ------------------------- unsynchronised state ------------------------ *)

\* The goroutines about to read or write watcherStatusMap: run() in the job
\* loop (handleJobEvent reads the pod status and WatchPod writes it), a pod
\* watcher (handlePodEvent reads the log status or writes the pod status)
\* and a log streamer before and in io.Copy (it writes the log status)
MapUsers ==
  (IF runPc = "jobevents" /\ jobSub = "open" /\ Len(jobHist) < MaxJobEvents
   THEN {<<"run", 0>>} ELSE {})
  \cup {<<"pod", i>> : i \in {k \in DOMAIN podSubs :
                                 podSubs[k] = "open" /\ podEvents < MaxPodEvents}}
  \cup {<<"log", j>> : j \in {k \in DOMAIN logs : logs[k].pc \in {"open", "copy"}}}

\* watcherStatusMap is a plain map used by several goroutines without a
\* lock: when two of them are in it at once and one writes, the runtime may
\* end the process ("fatal error: concurrent map read and map write")
ConcurrentMapAccess ==
  /\ Alive
  /\ \E a \in MapUsers, b \in MapUsers : a # b
  /\ runPc' = "crashed"
  /\ UNCHANGED <<runErr, clusterVars, jobVars, status, wg, podVars, logs>>
  /\ UNCHANGED pureVars

(* ------------------------------ the system ----------------------------- *)

Next ==
  \/ RunCreateOrGetPVC
  \/ RunWatchJob
  \/ RunCreateJob
  \/ JobEvents
  \/ JobStreamEnds
  \/ JobEventsReturn
  \/ RunWait
  \/ RunCleanup
  \/ PodEvents
  \/ PodStreamEnds
  \/ WatchLogsOpen
  \/ WatchLogsCopied
  \/ ConcurrentMapAccess

Spec == Init /\ [][Next]_vars

(* ------------------- CreateOrGetPVC called repeatedly ------------------ *)

\* one more call of Plugin.CreateOrGetPVC on the cluster the calls before
\* left, with any answer of Get and of Create
CallCreateOrGetPVC ==
  /\ Len(pvcCalls) < MaxPvcCalls
  /\ \E getOk \in BOOLEAN, createOk \in BOOLEAN :
       LET r == CreateOrGetPVC(claim, getOk, createOk)
       IN  /\ claim' = r.claim
           /\ pvcCalls' = Append(pvcCalls, [exists |-> claim, getOk |-> getOk,
                                            createOk |-> createOk, result |-> r])
  /\ UNCHANGED <<runPc, runErr, job, cleanups, jobVars, status, wg, podVars, logs,
                 env, originalEnv>>

PvcNext == CallCreateOrGetPVC

PvcSpec == Init /\ [][PvcNext]_vars

(* ---------------------------- originalEnvVars -------------------------- *)

\* the keys of the environments drawn: with each prefix, with a prefix and
\* nothing after it, with a prefix short of its last character, with a
\* prefix not at the start, and with no prefix
KeyPluginA == <<"P", "L", "U", "G", "I", "N", "_", "A">>
KeyDroneB == <<"D", "R", "O", "N", "E", "_", "B">>
KeyPluginBare == <<"P", "L", "U", "G", "I", "N", "_">>
KeyDroneNoUnderscore == <<"D", "R", "O", "N", "E", "B">>
KeyMyPluginA == <<"M", "Y", "_", "P", "L", "U", "G", "I", "N", "_", "A">>
KeyHome == <<"H", "O", "M", "E">>

EnvKeys ==
  {KeyPluginA, KeyDroneB, KeyPluginBare, KeyDroneNoUnderscore, KeyMyPluginA, KeyHome}

EnvValues == 1..MaxEnvValues

\* map[string]string: any of the keys, each with any value
EnvMaps == UNION {[K -> EnvValues] : K \in SUBSET EnvKeys}

\* strings.HasPrefix(s, prefix)
HasPrefix(s, prefix) ==
  /\ Len(s) >= Len(prefix)
  /\ SubSeq(s, 1, Len(prefix)) = prefix

\* a mutant of IsOriginalEnvKey: the PLUGIN_ prefix only
IsOriginalEnvKey_PluginOnly(key) == HasPrefix(key, pluginEnvPrefix)

\* the condition of originalEnvVars on a key of Plugin.Env
IsOriginalEnvKey(key) ==
  HasPrefix(key, pluginEnvPrefix) \/ HasPrefix(key, droneEnvPrefix)

\* a Plugin whose Env is any of the maps, originalEnvVars not yet called
EnvInit ==
  /\ InitRun
  /\ pvcCalls = <<>>
  /\ env \in EnvMaps
  /\ originalEnv = NoOriginalEnv

\* one round of for key, val := range p.Env, which visits the keys in any
\* order: the entry is appended when the key has one of the prefixes
OriginalEnvVarsRange ==
  /\ ~originalEnv.done
  /\ \E key \in DOMAIN env \ originalEnv.visited :
       originalEnv' =
         [originalEnv EXCEPT
            !.visited = @ \cup {key},
            !.vars = IF IsOriginalEnvKey(key)
                     THEN Append(@, [Name |-> key, Value |-> env[key]])
                     ELSE @]
  /\ UNCHANGED <<runPc, runErr, clusterVars, jobVars, status, wg, podVars, logs,
                 pvcCalls, env>>

\* the loop is over: return originalEnv
OriginalEnvVarsReturn ==
  /\ ~originalEnv.done
  /\ originalEnv.visited = DOMAIN env
  /\ originalEnv' = [originalEnv EXCEPT !.done = TRUE]
  /\ UNCHANGED <<runPc, runErr, clusterVars, jobVars, status, wg, podVars, logs,
                 pvcCalls, env>>

EnvNext ==
  \/ OriginalEnvVarsRange
  \/ OriginalEnvVarsReturn

EnvSpec == EnvInit /\ [][EnvNext]_vars

(* ------------------------- vocabulary of the claims -------------------- *)

\* a job Modified event with failed-pod count > 0
IsFailedEvent(e) == e.type = "Modified" /\ e.payload = "Job" /\ e.failed > 0

\* a job Modified event with succeeded-pod count > 0 and failed-pod count 0
IsSucceededEvent(e) ==
  e.type = "Modified" /\ e.payload = "Job" /\ e.failed = 0 /\ e.succeeded > 0

\* a job Modified event with neither count > 0
IsRunningEvent(e) ==
  e.type = "Modified" /\ e.payload = "Job" /\ e.failed = 0 /\ e.succeeded = 0

IsAddedEvent(e) == e.type = "Added" /\ e.payload = "Job"

\* the last event the job watcher handled (Added before it handled any)
LastJobEvent ==
  IF jobHist = <<>> THEN JobEvent("Added", "Job", 0, 0) ELSE jobHist[Len(jobHist)]

\* the log-streaming tasks not yet ended
OutstandingLogs == {j \in DOMAIN logs : logs[j].pc \in {"open", "copy"}}

\* the pod subscriptions now open
OpenPodSubs == {i \in DOMAIN podSubs : podSubs[i] = "open"}

\* the error a run ends with on a job event reporting `failed` failed pods
FailureErrorWithCount(failed) ==
  [msg |-> "there are [ %d ] failed pods", n |-> failed]

(* -------------------------------- claims ------------------------------- *)

\* C1: once the job watcher has handled a Modified event with failed-pod
\* count > 0, that event is the last one handled, the job subscription has
\* been stopped exactly once, and the run has returned the failure error
\* whose message carries that count.
C1_FailedEventEndsRunWithCount ==
  \A k \in DOMAIN jobHist :
    IsFailedEvent(jobHist[k]) =>
      /\ k = Len(jobHist)
      /\ jobSub = "stopped"
      /\ jobStops = 1
      /\ runPc = "returned"
      /\ runErr = FailureErrorWithCount(jobHist[k].failed)

\* C1 witness: a failed event was handled after a pod watcher and a log
\* streamer had been started.
C1_Witness ==
  /\ IsFailedEvent(LastJobEvent)
  /\ Len(jobHist) > 1
  /\ podSubs # <<>>
  /\ logs # <<>>
  /\ runPc = "returned"

\* C2: once the job watcher has handled a Modified event with succeeded-pod
\* count > 0 and failed-pod count 0, the job subscription has been stopped
\* exactly once and the run terminates with no error: it has returned nil,
\* or it can still take a step towards returning (stated for the runs in
\* which no goroutine has panicked).
C2_SucceededEventEndsRunNoError ==
  (IsSucceededEvent(LastJobEvent) /\ runPc # "crashed") =>
    /\ jobStops = 1
    /\ runPc = "returned" => runErr = NilErr
    /\ runPc = "returned" \/ ENABLED Next

\* C3: the run has not exited while the completion counter is > 0 or a
\* log-streaming task is outstanding; in particular, with two overlapping
\* log-streaming tasks the run does not complete before both have ended
\* (stated for the exit with success, the one that follows Wg.Wait()).
C3_NoExitWhileLogsOutstanding ==
  (runPc = "returned" /\ runErr = NilErr) => (wg = 0 /\ OutstandingLogs = {})

\* C4: a run that has ended after a terminal job event (success, failure,
\* deletion) has invoked Cleanup exactly once, with the counter drained.
C4_CleanupOnceOnEveryEnd ==
  (runPc = "returned" /\ jobSub = "stopped" /\ jobHist # <<>>) =>
    (cleanups = 1 /\ wg = 0)

\* C5: at most one pod watcher is opened during a run.
C5_OnePodWatcherPerRun == Len(podSubs) <= 1

\* C5 as amended: at most one pod subscription is open at any time; a later
\* pod watcher is opened only after every earlier one was stopped (by a pod
\* Deleted event), and only while the run is in the job loop.
C5_OneActivePodWatcher ==
  /\ Cardinality(OpenPodSubs) <= 1
  /\ \A i \in DOMAIN podSubs : i < Len(podSubs) => podSubs[i] = "stopped"
  /\ OpenPodSubs # {} => watchingStatus(status, PodWatcherStatusKey) = TRUE

\* C5 witness: a second pod watcher was opened after a pod Deleted event
\* stopped the first.
C5_Witness == Len(podSubs) = 2 /\ podSubs[1] = "stopped" /\ podSubs[2] = "open"

\* C6: each pod watcher has started at most one log-streaming task, and no
\* two log-streaming tasks run at the same time.
C6_OneLogStreamerPerPodWatcher ==
  /\ \A i \in DOMAIN podSubs : Cardinality({j \in DOMAIN logs : logs[j].w = i}) <= 1
  /\ Cardinality(OutstandingLogs) <= 1

\* C7: the completion counter is non-negative in every reachable state.
C7_CounterNonNegative == wg >= 0

\* C8: a run that has consumed a job event ends with no error or with the
\* failure error of a job event: a failure to open the pod subscription is
\* never the run's result.
C8_PodWatchFailureNotPropagated ==
  (runPc = "returned" /\ jobHist # <<>>) =>
    \/ runErr = NilErr
    \/ IsFailedEvent(LastJobEvent) /\ runErr = FailureErrorWithCount(LastJobEvent.failed)

\* a log stream failed to open before the last job event was handled, and
\* no goroutine has panicked
LogOpenFailed ==
  /\ \E j \in DOMAIN logs : logs[j].pc = "failed" /\ logs[j].at < Len(jobHist)
  /\ runPc # "crashed"

\* C9: after a log stream failed to open, a job that later reports success
\* still ends the run with no error after cleanup (the run has returned so,
\* or can still take a step), and a job that later reports failure ends it
\* with the failure error.
C9_LogOpenFailureLeavesOutcome ==
  LogOpenFailed =>
    /\ IsSucceededEvent(LastJobEvent) =>
         /\ runPc = "returned" => (runErr = NilErr /\ cleanups = 1)
         /\ runPc = "returned" \/ ENABLED Next
    /\ IsFailedEvent(LastJobEvent) =>
         (runPc = "returned" /\ runErr = FailureErrorWithCount(LastJobEvent.failed))

\* the job events of C10: Added, Modified(failed=0, succeeded=0)
C10_Prefix ==
  /\ Len(jobHist) >= 2
  /\ IsAddedEvent(jobHist[1])
  /\ IsRunningEvent(jobHist[2])

\* the run ended on a failure to open the pod subscription
PodWatchFailed == runPc = "returned" /\ runErr = ApiErr("could not watch pod")

\* C10, the states: after [Added] no pod watcher was opened; after [Added,
\* Modified(0,0)] whose pod subscription opened, exactly one was; after
\* [Added, Modified(0,0), Modified(failed>0)] the run has returned the
\* failure error and still exactly one pod watcher was opened.
C10_States ==
  /\ (Len(jobHist) = 1 /\ IsAddedEvent(jobHist[1])) => podSubs = <<>>
  /\ (C10_Prefix /\ Len(jobHist) = 2 /\ ~PodWatchFailed) => Len(podSubs) = 1
  /\ (C10_Prefix /\ Len(jobHist) = 3 /\ IsFailedEvent(jobHist[3])) =>
       /\ Len(podSubs) = 1
       /\ runPc = "returned"
       /\ runErr = FailureErrorWithCount(jobHist[3].failed)

\* C10, the step: handling Modified(failed>0) after [Added, Modified(0,0)]
\* leaves the pod watcher as it was: no pod subscription is stopped or
\* opened and the pod-active flag is unchanged.
C10_Step ==
  (C10_Prefix /\ Len(jobHist) = 2 /\ Len(jobHist') = 3 /\ IsFailedEvent(jobHist'[3])) =>
    /\ podSubs' = podSubs
    /\ status'[PodWatcherStatusKey] = status[PodWatcherStatusKey]
    /\ jobSub' = "stopped"

\* C10: for job events [Added, Modified(0,0), Modified(failed>0)], no pod
\* watcher is spawned by Added, exactly one after the first Modified, the run
\* returns the failure error after the second Modified, and handling it
\* leaves the running pod watcher untouched.
C10_FailureLeavesPodWatcher == []C10_States /\ [][C10_Step]_vars

\* C10 witness: the three events were handled while the pod watcher was open.
C10_Witness ==
  /\ C10_Prefix
  /\ Len(jobHist) = 3
  /\ IsFailedEvent(jobHist[3])
  /\ podSubs = <<"open">>
  /\ watchingStatus(status, PodWatcherStatusKey) = TRUE
  /\ runPc = "returned"

\* the job watcher has handled Added events only
OnlyAddedSoFar == \A k \in DOMAIN jobHist : IsAddedEvent(jobHist[k])

\* the first Modified event the job watcher handled reports succeeded pods
\* (and no failed pod), Added events only came before it, and it is the
\* last event handled
SucceededAtFirstModified ==
  /\ jobHist # <<>>
  /\ IsSucceededEvent(LastJobEvent)
  /\ \A k \in 1..(Len(jobHist) - 1) : IsAddedEvent(jobHist[k])

\* C11: when the first Modified event of the job already reports succeeded
\* pods, with Added events only before it, no pod watcher and no log
\* streamer is ever spawned and the completion counter stays 0 (before that
\* event as after it); the job subscription is stopped once, the run goes
\* on to the wait and to cleanup without stopping anywhere, and it returns
\* no error after exactly one cleanup.
C11_SuccessBeforePodWatcher ==
  /\ (OnlyAddedSoFar \/ SucceededAtFirstModified) =>
       /\ podSubs = <<>>
       /\ logs = <<>>
       /\ wg = 0
       /\ status[PodWatcherStatusKey] = FALSE
       /\ status[LogWatcherStatusKey] = FALSE
  /\ SucceededAtFirstModified =>
       /\ jobSub = "stopped"
       /\ jobStops = 1
       /\ runPc \in {"jobevents", "wait", "cleanup", "returned"}
       /\ cleanups = (IF runPc = "returned" THEN 1 ELSE 0)
       /\ runErr = NilErr
       /\ runPc = "returned" \/ ENABLED Next

\* a run ended without error on a succeeded job whose pod was never watched
C11_Witness ==
  /\ SucceededAtFirstModified
  /\ Len(jobHist) > 1
  /\ runPc = "returned"
  /\ runErr = NilErr
  /\ cleanups = 1
  /\ podSubs = <<>>

\* the get-or-create of the storage claim failed
PVCFailed == runErr = ApiErr("could not create PVC")

\* the creation of the job failed
CreateJobFailed == runErr = ApiErr("could not create job")

\* C12: an error of the submission phase ends the run with that error. When
\* the get-or-create of the storage claim fails, no job subscription has been
\* opened and no job created; when the creation of the job fails, the job
\* subscription opened before it has been stopped (once) when the run
\* returns. In both cases no job event was consumed, no pod watcher was
\* spawned and cleanup was not invoked.
C12_SubmissionErrorAborts ==
  /\ PVCFailed =>
       /\ runPc = "returned"
       /\ jobSub = "none"
       /\ jobStops = 0
       /\ status[JobWatcherStatusKey] = FALSE
  /\ CreateJobFailed =>
       /\ runPc = "returned"
       /\ jobSub = "stopped"
       /\ jobStops = 1
  /\ (PVCFailed \/ CreateJobFailed) =>
       /\ job = "absent"
       /\ jobHist = <<>>
       /\ podSubs = <<>>
       /\ logs = <<>>
       /\ wg = 0
       /\ cleanups = 0

\* the run returned the error of a failed job creation
C12_Witness ==
  /\ CreateJobFailed
  /\ runPc = "returned"
  /\ jobSub = "stopped"
  /\ claim = TRUE

\* the lookup of a call found the claim
LookupSucceeded(c) == c.getOk /\ c.exists

\* C13: every call of the get-or-create whose lookup succeeds returns the
\* existing claim with no create call, no change of the cluster and no
\* error; every call whose lookup fails issues exactly one create and
\* returns the created claim, or nil with the creation error; however many
\* calls are made one after another, at most one claim is created.
C13_GetOrCreateIdempotent ==
  /\ \A k \in DOMAIN pvcCalls :
       LET c == pvcCalls[k]
           r == c.result
       IN  /\ LookupSucceeded(c) =>
                /\ r.ret = "existing"
                /\ r.creates = 0
                /\ r.claim = c.exists
                /\ r.err = NilErr
           /\ ~LookupSucceeded(c) =>
                /\ r.creates = 1
                /\ \/ r.ret = "created" /\ r.err = NilErr /\ r.claim = TRUE
                   \/ r.ret = "nil" /\ r.err # NilErr /\ r.claim = c.exists
  /\ Cardinality({k \in DOMAIN pvcCalls : pvcCalls[k].result.ret = "created"}) <= 1

\* a call created the claim and the next call found it
C13_Witness ==
  /\ Len(pvcCalls) >= 2
  /\ pvcCalls[1].result.ret = "created"
  /\ LookupSucceeded(pvcCalls[2])
  /\ pvcCalls[2].result.ret = "existing"

\* the keys of EnvKeys that start with PLUGIN_ or with DRONE_, by hand
PrefixedKeys == {KeyPluginA, KeyDroneB, KeyPluginBare}

\* C14: for every environment map, the container environment that
\* originalEnvVars returns holds exactly the entries of the map whose key
\* starts with "PLUGIN_" or "DRONE_": each of them once, with the value the
\* map gives the key, and no other entry.
C14_EnvFilteredByPrefix ==
  originalEnv.done =>
    LET out == originalEnv.vars
    IN  /\ {out[i].Name : i \in DOMAIN out} = DOMAIN env \cap PrefixedKeys
        /\ Len(out) = Cardinality(DOMAIN env \cap PrefixedKeys)
        /\ \A i \in DOMAIN out : out[i].Value = env[out[i].Name]

\* originalEnvVars returned on a map holding every key, with different values
C14_Witness ==
  /\ originalEnv.done
  /\ DOMAIN env = EnvKeys
  /\ env[KeyPluginA] # env[KeyDroneB]
  /\ Len(originalEnv.vars) = 3

\* the last event the job watcher handled is the deletion of the job
JobDeletedLast ==
  /\ jobHist # <<>>
  /\ LastJobEvent.type = "Deleted"
  /\ LastJobEvent.payload = "Job"

\* C15: once the job watcher has handled a Deleted event, the job
\* subscription has been stopped (once) and no error is returned; the run
\* then waits for the completion counter to reach zero, invokes cleanup and
\* ends with no error: it has returned nil after one cleanup, or it can
\* still take a step towards that (stated for the runs in which no
\* goroutine has panicked).
C15_DeletedEndsRunNoError ==
  (JobDeletedLast /\ runPc # "crashed") =>
    /\ jobSub = "stopped"
    /\ jobStops = 1
    /\ runErr = NilErr
    /\ runPc = "returned" => (wg = 0 /\ cleanups = 1)
    /\ runPc = "returned" \/ ENABLED Next

\* the step is the job watcher handling an event of kind Error
HandlesJobError ==
  /\ Len(jobHist') = Len(jobHist) + 1
  /\ jobHist'[Len(jobHist')].type = "Error"

\* C16 (step): the job watcher handling an event of kind Error, whatever
\* its payload, changes nothing: the subscription is not stopped, no flag
\* and no counter changes, no watcher is spawned, no error is returned and
\* the run stays in the loop of the job watcher.
C16_Step ==
  HandlesJobError =>
    UNCHANGED <<runPc, runErr, clusterVars, jobSub, jobStops, status, wg,
                podVars, logs>>

\* C16: a job event of kind Error causes no state change, whether it
\* carries a Job snapshot or a status object that is no Job, and the job
\* watcher goes on to the next event.
C16_JobErrorEventChangesNothing == [][C16_Step]_vars

\* the loop of the job watcher has ended with no error and run() goes on
JobWatcherEnded == runPc \in {"wait", "cleanup"}

\* C17: each status flag tracks the activity of the watchers of its kind:
\* the job flag is true while the job watcher is at work and false once its
\* loop has ended; the pod flag is true while a pod subscription is open and
\* false when none is; the log flag is true from the moment a log-streaming
\* task is spawned until it has ended, and false when none is outstanding
\* (stated for the runs in which no goroutine has panicked).
C17_FlagsTrackActivity ==
  runPc # "crashed" =>
    /\ (jobSub = "open" /\ runPc \in {"createjob", "jobevents"})
         => status[JobWatcherStatusKey] = TRUE
    /\ JobWatcherEnded => status[JobWatcherStatusKey] = FALSE
    /\ status[PodWatcherStatusKey] = (OpenPodSubs # {})
    /\ status[LogWatcherStatusKey] = (OutstandingLogs # {})

\* the step is the job watcher handling event e
HandlesJobEvent(e) ==
  /\ Len(jobHist') = Len(jobHist) + 1
  /\ jobHist'[Len(jobHist')] = e

\* C18 (step): the job watcher handling a Modified event with both counts
\* > 0 ends the run with the failure error carrying the failed-pod count; the
\* job watcher handling a Modified event with both counts 0 does not end the
\* run: the run stays in the loop of the job watcher, the job subscription is
\* not stopped and no error is returned.
C18_Step ==
  \A e \in JobEventSet :
    /\ (HandlesJobEvent(e) /\ e.type = "Modified" /\ e.payload = "Job"
          /\ e.failed > 0 /\ e.succeeded > 0)
         => /\ runPc' = "returned"
            /\ runErr' = FailureErrorWithCount(e.failed)
            /\ cleanups' = cleanups
    /\ (HandlesJobEvent(e) /\ IsRunningEvent(e))
         => /\ runPc' = "jobevents"
            /\ runErr' = NilErr
            /\ UNCHANGED <<jobSub, jobStops>>

\* C18: the failure condition is evaluated before the success condition: a
\* job Modified event reporting both counts > 0 ends the run with the
\* failure error, never with success, and a Modified event with both counts
\* 0 never ends the run.
C18_FailureBeforeSuccess == [][C18_Step]_vars

\* C19 (states): a job subscription has been opened only with the storage
\* claim obtained, the job has been submitted only with the job
\* subscription opened, and a job event has been consumed only with the job
\* submitted.
C19_States ==
  /\ jobSub # "none" => (claim = TRUE /\ runPc \notin {"pvc", "watchjob"})
  /\ job # "absent" => (jobSub # "none" /\ runPc \notin {"pvc", "watchjob", "createjob"})
  /\ jobHist # <<>> => job # "absent"

\* C19 (steps): the job subscription is opened by a step that finds the
\* storage claim there, the job is submitted by a step that finds the job
\* subscription opened, and a job event is consumed by a step that finds the
\* job submitted.
C19_Step ==
  /\ (jobSub = "none" /\ jobSub' # "none") => (claim = TRUE /\ job = "absent")
  /\ (job = "absent" /\ job' # "absent") => (jobSub # "none" /\ jobHist = <<>>)
  /\ jobHist' # jobHist => job # "absent"

\* C19: the submission phase is ordered: the storage claim is obtained
\* before the job subscription is opened, the subscription is opened before
\* the job is submitted, and no job event is consumed before the submission
\* succeeded.
C19_SubmissionOrdered == []C19_States /\ [][C19_Step]_vars

\* the job watcher has consumed an event of the submitted job
C19_Witness ==
  /\ jobHist # <<>>
  /\ job = "created"
  /\ jobSub = "open"
  /\ claim = TRUE

\* C20: whenever run() has returned after the job subscription was opened
\* (on a job creation error, a job failure, a success, a deletion, or an
\* error returned while spawning the pod watcher), the job subscription has
\* been stopped or its stream has ended: it is not left open.
C20_JobSubscriptionNotLeftOpen ==
  (runPc = "returned" /\ jobSub # "none") => jobSub \in {"stopped", "ended"}

====
